---- MODULE Spec2Model ----
(***************************************************************************)
(* Model of the blog backend's comment moderation path:                    *)
(*   blog/views.py   classify_comment_safety, PostListCreate.post,         *)
(*                   CommentCreate.post                                    *)
(*   blog/models.py  Post, Comment                                         *)
(*   blog/urls.py    the routes, one of which names FlaggedCommentList     *)
(* One comment-creation request is followed statement by statement; the   *)
(* remote classification endpoint is the environment and answers each     *)
(* attempt with any outcome of Outcomes.                                   *)
(***************************************************************************)
EXTENDS Integers, Sequences, FiniteSets, TLC

(***************************************************************************)
(* Bounds of the model.                                                    *)
(***************************************************************************)
MaxPosts == 2

(***************************************************************************)
(* Python values.  None is a marker of its own; text is a sequence of      *)
(* one-character strings so that strip() and lower() are computed.         *)
(***************************************************************************)
PyNone == "<None>"

NoId == -1

Whitespace == {" ", "\n", "\t"}

UpperMap ==
    [N |-> "n", E |-> "e", D |-> "d", S |-> "s", R |-> "r",
     V |-> "v", I |-> "i", W |-> "w", A |-> "a", F |-> "f"]

LowerChar(c) == IF c \in DOMAIN UpperMap THEN UpperMap[c] ELSE c

\* str.lower()
Lower(s) == [i \in 1..Len(s) |-> LowerChar(s[i])]

RECURSIVE LStrip(_)
LStrip(s) ==
    IF s # <<>> /\ Head(s) \in Whitespace THEN LStrip(Tail(s)) ELSE s

RECURSIVE RStrip(_)
RStrip(s) ==
    IF s # <<>> /\ s[Len(s)] \in Whitespace
    THEN RStrip(SubSeq(s, 1, Len(s) - 1))
    ELSE s

\* str.strip()
Strip(s) == RStrip(LStrip(s))

\* the literal 'needs_review' of views.py line 81
NEEDS_REVIEW == <<"n", "e", "e", "d", "s", "_", "r", "e", "v", "i", "e", "w">>

SAFE == <<"s", "a", "f", "e">>

(***************************************************************************)
(* What the remote endpoint may answer to one requests.post call.          *)
(***************************************************************************)
\* texts the remote model may put in candidates[0].content.parts[0].text
RawTexts ==
    { SAFE,
      NEEDS_REVIEW,
      <<>>,
      <<" ">> \o NEEDS_REVIEW \o <<"\n">>,
      <<"N", "E", "E", "D", "S", "_", "R", "E", "V", "I", "E", "W">>,
      <<"S", "a", "f", "e">>,
      NEEDS_REVIEW \o <<".">>,
      <<"n", "e", "e", "d", "s", " ", "r", "e", "v", "i", "e", "w">> }

\* shapes of a body that decodes as JSON
\*   full              {"candidates":[{"content":{"parts":[{"text": t}]}}]}
\*   no_candidates     {}
\*   no_content        {"candidates":[{}]}
\*   no_parts          {"candidates":[{"content":{}}]}
\*   no_text           {"candidates":[{"content":{"parts":[{}]}}]}
\*   empty_candidates  {"candidates":[]}
\*   empty_parts       {"candidates":[{"content":{"parts":[]}}]}
\*   null_text         {"candidates":[{"content":{"parts":[{"text": null}]}}]}
\*   array             [ ... ]  (not an object)
DefaultShapes == {"no_candidates", "no_content", "no_parts", "no_text"}

RaisingShapes == {"empty_candidates", "empty_parts", "null_text", "array"}

Bodies ==
    [shape : {"full"}, text : RawTexts]
    \cup [shape : DefaultShapes \cup RaisingShapes \cup {"invalid_json"}, text : {<<>>}]

OkStatuses == {200, 201, 304}

ErrStatuses == {404, 500, 503}

Outcomes ==
    [kind : {"raise"}, exc : {"ConnectionError", "Timeout", "OtherError"}]
    \cup [kind : {"response"}, status : OkStatuses, body : Bodies]
    \cup [kind : {"response"}, status : ErrStatuses,
          body : {[shape |-> "no_candidates", text |-> <<>>]}]

\* Response.raise_for_status(): HTTPError for 4xx and 5xx
RaisesForStatus(status) == 400 <= status /\ status < 600

\* views.py line 79: the chain of .get(...)[0] calls with its defaults.
ExtractRaises(body) == body.shape \in RaisingShapes

ExtractText(body) == IF body.shape = "full" THEN body.text ELSE <<>>

\* The exception one attempt (lines 73-79) ends with, "none" when it does not.
\* Response.json() raises requests.exceptions.JSONDecodeError, a
\* RequestException, on a body that is not JSON.
AttemptException(o) ==
    IF o.kind = "raise" THEN o.exc
    ELSE IF RaisesForStatus(o.status) THEN "HTTPError"
    ELSE IF o.body.shape = "invalid_json" THEN "JSONDecodeError"
    ELSE IF ExtractRaises(o.body) THEN "ExtractError"
    ELSE "none"

\* faulty variant: every exception is retried
IsRequestException_All(exc) == exc # "none"

\* except requests.exceptions.RequestException (line 87)
IsRequestException(exc) ==
    exc \in {"ConnectionError", "Timeout", "HTTPError", "JSONDecodeError"}

\* faulty variant: no `except Exception` clause
IsCaught_OnlyRequest(exc) == IsRequestException(exc)

\* the two except clauses (lines 87, 93) together catch every Exception
IsCaught(exc) == exc # "none"

max_retries == 3

base_delay == 1

RECURSIVE Pow2(_)
Pow2(n) == IF n = 0 THEN 1 ELSE 2 * Pow2(n - 1)

\* base_delay * (2 ** attempt), line 89
BackoffDelay(att) == base_delay * Pow2(att)

\* faulty variant: sleeps after the last attempt too
SleepsAfter_Always(att) == TRUE

\* if attempt < max_retries - 1, line 88
SleepsAfter(att) == att < max_retries - 1

\* faulty variant: only None counts as a missing key
KeyMissing_OnlyNone(key) == key = PyNone

\* not API_KEY, line 52
KeyMissing(key) == key \in {PyNone, ""}

\* classification_result == 'needs_review', line 81
IsFlagged(token) == token = NEEDS_REVIEW

(***************************************************************************)
(* Storage: blog/models.py.                                                *)
(***************************************************************************)
\* the fields of Comment (models.py lines 18-21, and the automatic id)
CommentFields == {"id", "post", "author_name", "text", "created_date"}

\* the keyword arguments of Comment.objects.create (views.py lines 160-166)
CreateKwargs == {"post", "author_name", "text", "created_date", "flagged"}

\* Model.__init__ raises TypeError on a keyword that is no field
CreateRaises == ~(CreateKwargs \subseteq CommentFields)

(***************************************************************************)
(* Request bodies.                                                         *)
(***************************************************************************)
PostIdValues == {NoId} \cup (0 .. MaxPosts + 1)

NoData == [kind |-> "none", post_id |-> NoId, author_name |-> PyNone, text |-> PyNone]

CommentBodies ==
    [kind : {"invalid_json", "array"}, post_id : {NoId},
     author_name : {PyNone}, text : {PyNone}]
    \cup [kind : {"object"}, post_id : PostIdValues,
          author_name : {PyNone, "", "ann"}, text : {PyNone, "", "nice post", "you fool"}]

PostBodies ==
    [kind : {"invalid_json"}, title : {PyNone}, content : {PyNone}]
    \cup [kind : {"object"}, title : {PyNone, "", "t"}, content : {PyNone, "", "c"}]

\* Python truth of a string or None, and of an integer or None
TruthyStr(v) == v \notin {PyNone, ""}

TruthyId(v) == v \notin {NoId, 0}

\* all([post_id, author_name, text]), views.py line 152
AllRequired(d) == TruthyId(d.post_id) /\ TruthyStr(d.author_name) /\ TruthyStr(d.text)

MSG_JSON == "Invalid JSON format."

MSG_REQUIRED == "post_id, author_name, and text are required."

MSG_GENERIC == "Post not found or internal error."

\* faulty variant: the comment is written without waiting for the classification
StepAfter_SkipClassify(step) ==
    CASE step = "parse" -> "validate"
      [] step = "validate" -> "lookup"
      [] step = "lookup" -> "create"
      [] step = "create" -> "classify"
      [] step = "classify" -> "respond"

\* faulty variant: the post is looked up before the required fields are checked
StepAfter_LookupFirst(step) ==
    CASE step = "parse" -> "lookup"
      [] step = "lookup" -> "validate"
      [] step = "validate" -> "classify"
      [] step = "classify" -> "create"
      [] step = "create" -> "respond"

\* faulty variant: the classification runs before the post is looked up
StepAfter_ClassifyFirst(step) ==
    CASE step = "parse" -> "validate"
      [] step = "validate" -> "classify"
      [] step = "classify" -> "lookup"
      [] step = "lookup" -> "create"
      [] step = "create" -> "respond"

\* the order of the statements of CommentCreate.post (views.py lines 147-168)
StepAfter(step) ==
    CASE step = "parse" -> "validate"
      [] step = "validate" -> "lookup"
      [] step = "lookup" -> "classify"
      [] step = "classify" -> "create"
      [] step = "create" -> "respond"

(***************************************************************************)
(* State.                                                                  *)
(***************************************************************************)
VARIABLES
    API_KEY,                \* settings.GEMINI_API_KEY, views.py line 16
    posts,                  \* the Post table
    comments,               \* the Comment table
    post_status,            \* status of the last POST /posts/ response, 0: none
    flagged_response,       \* the last GET /comments/flagged/ response
    pc,                     \* position of the comment-creation request
    data,                   \* its decoded body
    post,                   \* the id of the post it looked up
    comments_before,        \* the Comment table when the request arrived
    trace,                  \* the statements the request has executed
    clf,                    \* classify_comment_safety: notcalled, running, returned, raised
    attempt,                \* its loop variable
    calls,                  \* requests.post calls made for this request
    sleeps,                 \* time.sleep durations of this request, in order
    excs,                   \* what each attempt ended with
    classification_result,  \* the token of line 79
    is_flagged,             \* the value classify_comment_safety returned
    created,                \* the arguments of Comment.objects.create, once called
    response                \* the response of the request

store == <<API_KEY, posts, comments, post_status, flagged_response>>

handler == <<pc, data, post, comments_before, trace, created, response>>

classifier == <<clf, attempt, calls, sleeps, excs, classification_result, is_flagged>>

vars == <<store, handler, classifier>>

NoResponse == [status |-> 0, error |-> "", body |-> <<>>]

PostIds == {p.id : p \in posts}

Init ==
    /\ API_KEY \in {PyNone, "", "secret"}
    /\ posts = {}
    /\ comments = {}
    /\ post_status = 0
    /\ flagged_response = [status |-> 0, list |-> {}]
    /\ pc = "idle"
    /\ data = NoData
    /\ post = NoId
    /\ comments_before = {}
    /\ trace = <<>>
    /\ clf = "notcalled"
    /\ attempt = 0
    /\ calls = 0
    /\ sleeps = <<>>
    /\ excs = <<>>
    /\ classification_result = <<>>
    /\ is_flagged = FALSE
    /\ created = <<>>
    /\ response = NoResponse

(***************************************************************************)
(* PostListCreate.post, views.py lines 110-122.                            *)
(***************************************************************************)
PostCreate(body) ==
    /\ Cardinality(posts) < MaxPosts
    /\ IF body.kind = "invalid_json"
       THEN /\ post_status' = 400
            /\ posts' = posts
       ELSE IF ~TruthyStr(body.title) \/ ~TruthyStr(body.content)
       THEN /\ post_status' = 400
            /\ posts' = posts
       ELSE /\ posts' = posts \cup
                {[id |-> Cardinality(posts) + 1, title |-> body.title,
                  content |-> body.content]}
            /\ post_status' = 201
    /\ UNCHANGED <<API_KEY, comments, flagged_response, handler, classifier>>

(***************************************************************************)
(* GET /comments/flagged/: urls.py line 16 names views.FlaggedCommentList, *)
(* which views.py does not define; its behaviour is the documented one.    *)
(***************************************************************************)
FlaggedCommentList ==
    /\ flagged_response' = [status |-> 200, list |-> {c \in comments : c.flagged}]
    /\ UNCHANGED <<API_KEY, posts, comments, post_status, handler, classifier>>

(***************************************************************************)
(* CommentCreate.post, views.py lines 145-173.                             *)
(***************************************************************************)
\* return JsonResponse({'error': msg}, status=400)
Reject(msg) ==
    /\ response' = [status |-> 400, error |-> msg, body |-> <<>>]
    /\ pc' = "done"

CommentRequest(body) ==
    /\ pc \in {"idle", "done"}
    /\ pc' = "parse"
    /\ data' = body
    /\ post' = NoId
    /\ comments_before' = comments
    /\ trace' = <<>>
    /\ created' = <<>>
    /\ response' = NoResponse
    /\ clf' = "notcalled"
    /\ attempt' = 0
    /\ calls' = 0
    /\ sleeps' = <<>>
    /\ excs' = <<>>
    /\ classification_result' = <<>>
    /\ is_flagged' = FALSE
    /\ UNCHANGED store

\* lines 147-150: json.loads, then data.get on the decoded value
Parse ==
    /\ pc = "parse"
    /\ trace' = Append(trace, "parse")
    /\ IF data.kind = "invalid_json" THEN Reject(MSG_JSON)
       ELSE IF data.kind = "array" THEN Reject(MSG_GENERIC)
       ELSE /\ pc' = StepAfter("parse")
            /\ response' = response
    /\ UNCHANGED <<store, data, post, comments_before, created, classifier>>

\* lines 152-153
Validate ==
    /\ pc = "validate"
    /\ trace' = Append(trace, "validate")
    /\ IF ~AllRequired(data) THEN Reject(MSG_REQUIRED)
       ELSE /\ pc' = StepAfter("validate")
            /\ response' = response
    /\ UNCHANGED <<store, data, post, comments_before, created, classifier>>

\* line 155: get_object_or_404 raises Http404, caught at line 172
Lookup ==
    /\ pc = "lookup"
    /\ trace' = Append(trace, "lookup")
    /\ IF data.post_id \in PostIds
       THEN /\ post' = data.post_id
            /\ pc' = StepAfter("lookup")
            /\ response' = response
       ELSE /\ post' = post
            /\ Reject(MSG_GENERIC)
    /\ UNCHANGED <<store, data, comments_before, created, classifier>>

(***************************************************************************)
(* classify_comment_safety, views.py lines 44-97, called at line 158.      *)
(***************************************************************************)
\* `return v` to line 158
Return(v) ==
    /\ clf' = "returned"
    /\ is_flagged' = v
    /\ pc' = IF StepAfter("classify") = "respond" THEN "done" ELSE StepAfter("classify")
    /\ response' = response

\* an exception leaving the function is caught at line 172
Raise ==
    /\ clf' = "raised"
    /\ is_flagged' = is_flagged
    /\ Reject(MSG_GENERIC)

\* lines 52-68
ClassifyEnter ==
    /\ pc = "classify"
    /\ clf = "notcalled"
    /\ trace' = Append(trace, "classify")
    /\ IF KeyMissing(API_KEY)
       THEN Return(FALSE)
       ELSE /\ clf' = "running"
            /\ UNCHANGED <<is_flagged, pc, response>>
    /\ attempt' = 0
    /\ UNCHANGED <<store, data, post, comments_before, created,
                   calls, sleeps, excs, classification_result>>

\* one iteration of the loop, lines 71-95, and line 97 after the last one
ClassifyAttempt(o) ==
    /\ pc = "classify"
    /\ clf = "running"
    /\ attempt < max_retries
    /\ calls' = calls + 1
    /\ LET exc == AttemptException(o)
           token == Lower(Strip(ExtractText(o.body)))
       IN  /\ excs' = Append(excs, exc)
           /\ IF exc = "none"
              THEN /\ classification_result' = token
                   /\ Return(IsFlagged(token))
                   /\ UNCHANGED <<attempt, sleeps>>
              ELSE IF ~IsCaught(exc)
              THEN /\ Raise
                   /\ UNCHANGED <<attempt, sleeps, classification_result>>
              ELSE IF IsRequestException(exc)
              THEN /\ classification_result' = classification_result
                   /\ IF SleepsAfter(attempt)
                      THEN /\ sleeps' = Append(sleeps, BackoffDelay(attempt))
                           /\ attempt' = attempt + 1
                           /\ IF attempt + 1 < max_retries
                              THEN UNCHANGED <<clf, is_flagged, pc, response>>
                              ELSE Return(FALSE)
                      ELSE /\ sleeps' = sleeps
                           /\ attempt' = attempt
                           /\ Return(FALSE)
              ELSE /\ Return(FALSE)
                   /\ UNCHANGED <<attempt, sleeps, classification_result>>
    /\ trace' = trace
    /\ UNCHANGED <<store, data, post, comments_before, created>>

\* lines 160-168: Comment.objects.create, serialize_comment, JsonResponse
Create ==
    /\ pc = "create"
    /\ trace' = Append(trace, "create")
    /\ LET kwargs == [post |-> post, author_name |-> data.author_name,
                      text |-> data.text, flagged |-> is_flagged]
           comment == [id |-> Cardinality(comments) + 1, post |-> post,
                       author_name |-> data.author_name, text |-> data.text,
                       flagged |-> is_flagged]
       IN  /\ created' = Append(created, kwargs)
           /\ IF CreateRaises
              THEN /\ comments' = comments
                   /\ Reject(MSG_GENERIC)
              ELSE /\ comments' = comments \cup {comment}
                   /\ IF StepAfter("create") = "respond"
                      THEN /\ pc' = "done"
                           /\ response' =
                                [status |-> 201, error |-> "",
                                 body |-> <<[id |-> comment.id,
                                             author_name |-> comment.author_name,
                                             text |-> comment.text,
                                             flagged |-> comment.flagged]>>]
                      ELSE /\ pc' = StepAfter("create")
                           /\ response' = response
    /\ UNCHANGED <<API_KEY, posts, post_status, flagged_response,
                   data, post, comments_before, classifier>>

Next ==
    \/ \E body \in PostBodies : PostCreate(body)
    \/ FlaggedCommentList
    \/ \E body \in CommentBodies : CommentRequest(body)
    \/ Parse
    \/ Validate
    \/ Lookup
    \/ ClassifyEnter
    \/ \E o \in Outcomes : ClassifyAttempt(o)
    \/ Create

Spec == Init /\ [][Next]_vars

(***************************************************************************)
(* Vocabulary of the properties.                                           *)
(***************************************************************************)
Range(seq) == {seq[i] : i \in 1..Len(seq)}

RECURSIVE Sum(_)
Sum(seq) == IF seq = <<>> THEN 0 ELSE Head(seq) + Sum(Tail(seq))

\* the request carries every required field
HasAllFields ==
    /\ data.kind = "object"
    /\ data.post_id \notin {NoId, 0}
    /\ data.author_name \notin {PyNone, ""}
    /\ data.text \notin {PyNone, ""}

\* a required field is missing or empty
MissingField == data.kind = "object" /\ ~HasAllFields

\* every field is there and post_id names no post (posts are never deleted)
NoSuchPost == HasAllFields /\ data.post_id \notin PostIds

\* the request had every field and its lookup found the post
Accepted == HasAllFields /\ post # NoId

\* the classification ended with a response from which a token was extracted
GotVerdict == clf = "returned" /\ excs # <<>> /\ excs[Len(excs)] = "none"

\* every attempt was made and every one ended in a retried failure
AllAttemptsFailed(kinds) ==
    /\ clf = "returned"
    /\ Len(excs) = 3
    /\ \A k \in 1..3 : excs[k] \in kinds

NewComments == comments \ comments_before

(***************************************************************************)
(* C1: classify_comment_safety never raises: whatever each attempt ends    *)
(* with, it makes at most three attempts and returns a boolean, and the    *)
(* boolean is false unless the last attempt produced a verdict token.      *)
(***************************************************************************)
C1_NeverRaises ==
    /\ clf # "raised"
    /\ is_flagged \in BOOLEAN
    /\ calls <= 3
    /\ (clf = "running" => calls < 3)
    /\ (is_flagged => GotVerdict)

C1_Witness ==
    /\ clf = "returned"
    /\ excs = <<"Timeout", "ExtractError">>
    /\ ~is_flagged

(***************************************************************************)
(* C2: a request with all fields and an existing post answers 201, stores  *)
(* exactly one comment, and the stored and returned flagged is true iff    *)
(* the extracted verdict token is "needs_review".                          *)
(***************************************************************************)
C2_FlaggedIffNeedsReview ==
    (pc = "done" /\ Accepted /\ GotVerdict) =>
        /\ response.status = 201
        /\ Cardinality(NewComments) = 1
        /\ \A c \in NewComments : c.flagged = (classification_result = NEEDS_REVIEW)
        /\ response.body[1].flagged = (classification_result = NEEDS_REVIEW)

(***************************************************************************)
(* C3 as stated: at most 3 attempts, and a further attempt is made only    *)
(* after a connection error, a timeout or an HTTP error status.            *)
(***************************************************************************)
C3_RetryOnlyAfterTransient ==
    /\ calls <= 3
    /\ \A k \in 1..(Len(excs) - 1) :
          excs[k] \in {"ConnectionError", "Timeout", "HTTPError"}
    /\ (AllAttemptsFailed({"ConnectionError", "Timeout", "HTTPError"}) => ~is_flagged)

(***************************************************************************)
(* C3 amended: at most 3 attempts; a further attempt is made only after a  *)
(* connection error, a timeout, an HTTP error status or a response body    *)
(* that is not JSON; the loop stops at the first attempt that ends         *)
(* otherwise; three such failures give false.                              *)
(***************************************************************************)
C3_RetryOnlyAfterRequestException ==
    /\ calls <= 3
    /\ Len(excs) = calls
    /\ \A k \in 1..(Len(excs) - 1) :
          excs[k] \in {"ConnectionError", "Timeout", "HTTPError", "JSONDecodeError"}
    /\ (clf = "running" =>
          \A k \in 1..Len(excs) :
             excs[k] \in {"ConnectionError", "Timeout", "HTTPError", "JSONDecodeError"})
    /\ (AllAttemptsFailed({"ConnectionError", "Timeout", "HTTPError", "JSONDecodeError"})
          => ~is_flagged)

C3_Witness ==
    /\ clf = "returned"
    /\ excs = <<"JSONDecodeError", "HTTPError", "Timeout">>
    /\ ~is_flagged

(***************************************************************************)
(* C4 as stated: when every attempt fails the sleeps are 1, 2, 4 and add   *)
(* up to 7.                                                                *)
(***************************************************************************)
C4_SleepsOneTwoFour ==
    AllAttemptsFailed({"ConnectionError", "Timeout", "HTTPError"}) =>
        /\ sleeps = <<1, 2, 4>>
        /\ Sum(sleeps) = 7

(***************************************************************************)
(* C4 amended: when every attempt fails the sleeps are 1, 2 (starting at 1 *)
(* and doubling), they add up to 3, and no sleep follows the last attempt. *)
(***************************************************************************)
C4_SleepsOneTwo ==
    /\ \E n \in 0..2 : sleeps = SubSeq(<<1, 2>>, 1, n)
    /\ (clf = "running" => Len(sleeps) = calls)
    /\ (clf = "returned" /\ calls > 0 => Len(sleeps) = calls - 1)
    /\ (AllAttemptsFailed({"ConnectionError", "Timeout", "HTTPError", "JSONDecodeError"}) =>
          /\ sleeps = <<1, 2>>
          /\ Sum(sleeps) = 3)

C4_Witness ==
    /\ AllAttemptsFailed({"ConnectionError"})
    /\ sleeps = <<1, 2>>

(***************************************************************************)
(* C5: without an API key no outbound call and no sleep is made and the    *)
(* result is false.                                                        *)
(***************************************************************************)
C5_NoKeyNoCall ==
    API_KEY \in {PyNone, ""} =>
        /\ calls = 0
        /\ sleeps = <<>>
        /\ clf \in {"notcalled", "returned"}
        /\ ~is_flagged

C5_Witness ==
    /\ API_KEY = ""
    /\ clf = "returned"
    /\ data.text = "nice post"

C7_CreatedWhenApiDown ==
    (pc = "done" /\ Accepted /\ AllAttemptsFailed({"ConnectionError"})) =>
        /\ calls >= 1
        /\ response.status = 201
        /\ Cardinality(NewComments) = 1
        /\ \A c \in NewComments : ~c.flagged
        /\ ~response.body[1].flagged

(***************************************************************************)
(* C8: a rejected request answers 400 and stores nothing; the required     *)
(* fields are checked before the post is looked up; every stored comment   *)
(* references a post.                                                      *)
(***************************************************************************)
C8_RejectedStoresNothing ==
    /\ (pc = "done" /\ data.kind = "invalid_json") =>
          /\ response.status = 400
          /\ response.error = "Invalid JSON format."
          /\ comments = comments_before
    /\ (pc = "done" /\ MissingField) =>
          /\ response.status = 400
          /\ response.error = "post_id, author_name, and text are required."
          /\ "lookup" \notin Range(trace)
          /\ comments = comments_before
    /\ (pc = "done" /\ NoSuchPost) =>
          /\ response.status = 400
          /\ created = <<>>
          /\ comments = comments_before
    /\ \A c \in comments : c.post \in PostIds

C8_Witness ==
    /\ pc = "done"
    /\ data.kind = "object"
    /\ data.text = PyNone
    /\ data.author_name = "ann"
    /\ data.post_id = MaxPosts + 1
    /\ data.post_id \notin PostIds
    /\ response.status = 400

(***************************************************************************)
(* C10: the classification client is invoked only for a request that has   *)
(* all fields and whose post exists; the statements run in the order       *)
(* validate, look up, classify, write.                                     *)
(***************************************************************************)
C10_ClassifyOnlyWhenValid ==
    /\ (clf # "notcalled" \/ calls > 0 \/ sleeps # <<>> \/ "classify" \in Range(trace)) =>
          (HasAllFields /\ data.post_id \in PostIds)
    /\ \A i \in 1..Len(trace) :
          trace[i] = <<"parse", "validate", "lookup", "classify", "create">>[i]

C10_Witness ==
    /\ pc = "done"
    /\ NoSuchPost
    /\ trace = <<"parse", "validate", "lookup">>
    /\ calls = 0
    /\ API_KEY = "secret"

====
